---- MODULE Spec2Model ----
(***************************************************************************)
(* Model of sentmatching/model/sent_matching_model.py: the Model base      *)
(* class (compile, save_model, load_pretrained_parameters, evaluate,       *)
(* train) and its two variants BaseModel and SemModel.                     *)
(*                                                                         *)
(* Python values are represented as follows.                               *)
(*   - a str path is the sequence of its characters;                       *)
(*   - an accuracy crr / ttl is the pair <<crr, ttl>> (ttl > 0), compared  *)
(*     by cross-multiplication; the int -1 is <<-1, 1>>;                   *)
(*   - an unbound local name is <<>> (dev_acc) or -1 (i);                  *)
(*   - an optional sample list is [given |-> BOOLEAN, samples |-> Seq];    *)
(*   - a dropout probability is a number of eighths (2 is 0.25): such      *)
(*     values are exact in float32, so np.float32(p).astype(floatX)        *)
(*     returns p itself;                                                   *)
(*   - a layer's params (a list of tensors) is a sequence of snapshot ids. *)
(***************************************************************************)
EXTENDS Integers, Sequences, FiniteSets, TLC

VARIABLES
    pc,             \* control position of the call being executed
    outcome,        \* how the call ended ("running" until it ends)
    variant,        \* "BaseModel" or "SemModel"
    args,           \* the configuration record (self.args)
    emb_layers,     \* the embedding layers handed to the constructor
    layers,         \* self.layers
    params,         \* self.params
    pooling,        \* pooling branch taken by _mid_layer
    dropout,        \* self.dropout (shared scalar); -1 before compile
    path,           \* argument of a direct save_model(path) call
    ckpt_file,      \* <<>> or <<the checkpoint record last written / to load>>
    call_args,      \* the args argument of a load_pretrained_parameters(args) call
    train_samples, dev_samples, test_samples,
    epoch, unchanged, best_acc, dev_acc, batch_indices, i, pos, ttl,
    visited,        \* entries of batch_indices the inner loop has consumed this epoch
    lastCall,       \* observer: last compiled function invoked and the dropout it saw
    nanSeen,        \* observer: a train step has returned a NaN loss
    maxSeen,        \* observer: greatest dev accuracy of the completed epochs, if any
    lastImproved,   \* observer: last epoch whose dev accuracy exceeded all earlier ones
    lastSave,       \* observer: last epoch in which a checkpoint was written
    trainEpochs     \* observer: epochs in which a train step was invoked

vars == <<pc, outcome, variant, args, emb_layers, layers, params, pooling, dropout,
          path, ckpt_file, call_args, train_samples, dev_samples, test_samples,
          epoch, unchanged, best_acc, dev_acc, batch_indices, i, pos, ttl, visited,
          lastCall, nanSeen, maxSeen, lastImproved, lastSave, trainEpochs>>

modelVars == <<variant, args, emb_layers, layers, params, pooling, dropout>>
fileVars  == <<path, ckpt_file, call_args>>
dataVars  == <<train_samples, dev_samples, test_samples>>
loopVars  == <<epoch, unchanged, best_acc, dev_acc, batch_indices, i, pos, ttl, visited>>
obsVars   == <<lastCall, nanSeen, maxSeen, lastImproved, lastSave, trainEpochs>>

(***************************************************************************)
(* Bounds of the model and constants of the program.                       *)
(***************************************************************************)
MaxEpoch == 17          \* largest args.max_epoch explored
MaxTrain == 2           \* largest number of train samples
MaxDev   == 2           \* largest number of dev samples
MaxDepth == 3           \* largest args.depth / number of layers
MaxCkpt  == 3           \* largest number of snapshots in a checkpoint to load
MaxParts == 3           \* path = at most this many parts of PathParts

StagnationLimit == 15   \* "if unchanged > 15: break"

Min(a, b) == IF a < b THEN a ELSE b

(***************************************************************************)
(* Accuracies.                                                             *)
(***************************************************************************)
Unbound == <<>>
MinusOne == <<-1, 1>>
AccGt(a, b) == a[1] * b[2] > b[1] * a[2]
AccEq(a, b) == a[1] * b[2] = b[1] * a[2]

(***************************************************************************)
(* Paths: str.endswith and the suffix normalisation of save_model.         *)
(***************************************************************************)
PKL   == <<".", "p", "k", "l">>
GZ    == <<".", "g", "z">>
PKLGZ == PKL \o GZ

EndsWith(s, suf) ==
    /\ Len(s) >= Len(suf)
    /\ SubSeq(s, Len(s) - Len(suf) + 1, Len(s)) = suf

\* a plausible slip: the ".pkl" case is forgotten
SaveModelPath_NoPklCase(p) ==
    IF ~EndsWith(p, PKLGZ) THEN p \o PKLGZ ELSE p

\* save_model, the two lines that rewrite path
SaveModelPath(p) ==
    IF ~EndsWith(p, PKLGZ)
    THEN p \o (IF EndsWith(p, PKL) THEN GZ ELSE PKLGZ)
    ELSE p

\* save_model, the pickled record (and the path it is written to)
Checkpoint(p, a, ls) ==
    [path   |-> SaveModelPath(p),
     args   |-> a,
     d      |-> a.hidden_dim,
     params |-> [k \in 1..Len(ls) |-> ls[k].params]]

(***************************************************************************)
(* load_pretrained_parameters.                                             *)
(***************************************************************************)
\* a plausible slip: the assertion is lost (or run with python -O)
HiddenDimMatches_NoAssert(a, data) == TRUE

\* assert args.hidden_dim == data["d"]
HiddenDimMatches(a, data) == a.hidden_dim = data.d

\* for l, p in zip(self.layers, data["params"]): l.params = p
LoadedLayers(ls, ps) ==
    [k \in 1..Len(ls) |->
        IF k <= Len(ps) THEN [ls[k] EXCEPT !.params = ps[k]] ELSE ls[k]]

(***************************************************************************)
(* Layer selection and the layer stack (_set_layers, _mid_layer, compile). *)
(***************************************************************************)
LayerNames == {"lstm", "LSTM", "gru", "Gru", "grnn", "GRNN", "cnn", "CNN",
               "str_cnn", "Str_CNN", "rcnn", "typo"}

\* str.lower() on the names above
Lower(s) ==
    CASE s \in {"lstm", "LSTM"}       -> "lstm"
      [] s \in {"gru", "Gru"}         -> "gru"
      [] s \in {"grnn", "GRNN"}       -> "grnn"
      [] s \in {"cnn", "CNN"}         -> "cnn"
      [] s \in {"str_cnn", "Str_CNN"} -> "str_cnn"
      [] OTHER                        -> s

\* the if/elif chain that sets layer_type
LayerType(a) ==
    IF Lower(a.layer) = "lstm" THEN "LSTM"
    ELSE IF Lower(a.layer) = "gru" THEN "GRU"
    ELSE IF Lower(a.layer) = "grnn" THEN "GRNN"
    ELSE IF Lower(a.layer) = "cnn" THEN "CNN"
    ELSE IF Lower(a.layer) = "str_cnn" THEN "StrCNN"
    ELSE "RCNN"

\* a plausible slip: every layer is given the embedding width
LayerInputWidth_AlwaysEmb(idx, n_d, width) == width

\* n_in = n_e if i == 0 else n_d
LayerInputWidth(idx, n_d, width) == IF idx = 0 THEN width ELSE n_d

\* one constructor call of the loop body; a fresh layer holds snapshot 0
FeatureLayer(layer_type, idx, n_d, width) ==
    [cls    |-> layer_type,
     n_in   |-> LayerInputWidth(idx, n_d, width),
     n_out  |-> n_d,
     kwargs |-> IF layer_type = "CNN" \/ layer_type = "StrCNN"
                THEN {"activation", "order"}
                ELSE IF layer_type # "RCNN"
                THEN {"activation"}
                ELSE {"activation", "order", "mode", "has_outgate"},
     params |-> <<0>>]

\* BaseModel._set_layers: self.layers after the loop
BaseModel_set_layers(ls, a, n_d, width) ==
    ls \o [k \in 1..a.depth |-> FeatureLayer(LayerType(a), k - 1, n_d, width)]

\* SemModel._set_layers: self.layers after the loop
SemModel_set_layers(ls, a, n_d, width) ==
    ls \o [k \in 1..a.depth |-> FeatureLayer(LayerType(a), k - 1, n_d, width)]

\* _mid_layer (both variants): which pooling branch is taken
MidLayerPooling(a) ==
    IF a.average \/ a.layer = "cnn" \/ a.layer = "str_cnn"
    THEN "average_without_padding"
    ELSE "last_step"

RECURSIVE Flatten(_)
Flatten(ls) == IF ls = <<>> THEN <<>> ELSE Head(ls).params \o Flatten(Tail(ls))

\* set_params: self.params += l.params for every layer
SetParams(ps, ls) == ps \o Flatten(ls)

\* an embedding layer of width w: emb.n_d is the field n_out
EmbLayer(w) ==
    [cls |-> "EmbeddingLayer", n_in |-> 0, n_out |-> w, kwargs |-> {}, params |-> <<0>>]

(***************************************************************************)
(* compile(): both variants.                                               *)
(***************************************************************************)
\* self.layers when compile() returns
CompiledLayers(v, a, embs) ==
    IF v = "BaseModel"
    THEN BaseModel_set_layers(<<>>, a, a.hidden_dim, embs[1].n_out)
    ELSE SemModel_set_layers(<<>>, a, a.hidden_dim, embs[1].n_out)
            \o <<embs[Len(embs)]>>              \* self.layers.append(self.emb_layers[-1])

\* compile(), on a Model whose __init__ has just run
Compile ==
    /\ pc = "constructed"
    /\ dropout' = args.dropout                  \* theano.shared(np.float32(args.dropout))
    /\ layers' = CompiledLayers(variant, args, emb_layers)
    /\ pooling' = MidLayerPooling(args)
    /\ params' = SetParams(params, layers')
    /\ pc' = "compiled"
    /\ UNCHANGED <<outcome, variant, args, emb_layers, fileVars, dataVars, loopVars, obsVars>>

(***************************************************************************)
(* save_model(path) and load_pretrained_parameters(args), called directly. *)
(***************************************************************************)
SaveModel ==
    /\ pc = "compiled"
    /\ ckpt_file' = <<Checkpoint(path, args, layers)>>
    /\ pc' = "saved"
    /\ UNCHANGED <<outcome, modelVars, path, call_args, dataVars, loopVars, obsVars>>

\* a SemModel's last entry of self.layers is the object emb_layers[-1]
\* (compile appends it), so what is assigned to the one shows in the other
AliasedEmbLayers(v, embs, ls) ==
    IF v = "SemModel" THEN [embs EXCEPT ![Len(embs)] = ls[Len(ls)]] ELSE embs

\* the hidden_dim tested is that of the args argument, not of self.args;
\* self.params keeps the tensors collected by compile
LoadPretrainedParameters ==
    /\ pc = "compiled"
    /\ ckpt_file # <<>>
    /\ LET data == ckpt_file[1] IN
       IF ~HiddenDimMatches(call_args, data)
       THEN /\ pc' = "raised"
            /\ outcome' = "AssertionError"
            /\ UNCHANGED <<layers, emb_layers>>
       ELSE /\ layers' = LoadedLayers(layers, data.params)
            /\ emb_layers' = AliasedEmbLayers(variant, emb_layers, layers')
            /\ pc' = "loaded"
            /\ UNCHANGED outcome
    /\ UNCHANGED <<variant, args, params, pooling, dropout,
                   fileVars, dataVars, loopVars, obsVars>>

(***************************************************************************)
(* evaluate(samples, eval_func).  eval_func's predictions depend on the    *)
(* parameters, so they are an input of the step.                           *)
(***************************************************************************)
MkSamples(n) == [k \in 1..n |-> [x |-> k, y |-> <<k % 2>>]]
EmptyBatch == [x |-> 0, y |-> <<>>]      \* a sample whose label vector is empty
NotGiven == [given |-> FALSE, samples |-> <<>>]
Given(ss) == [given |-> TRUE, samples |-> ss]

\* one prediction vector per sample, as long as the sample's label vector
Predictions(samples) ==
    {f \in [1..Len(samples) -> {<<>>, <<0>>, <<1>>}] :
        \A k \in 1..Len(samples) : Len(f[k]) = Len(samples[k].y)}

RECURSIVE EvalLoop(_, _, _, _)
EvalLoop(samples, preds, crr, tt) ==
    IF samples = <<>>
    THEN [crr |-> crr, ttl |-> tt]
    ELSE LET y      == Head(samples).y
             y_pred == Head(preds)
         IN  EvalLoop(Tail(samples), Tail(preds),
                      crr + Cardinality({k \in 1..Min(Len(y), Len(y_pred)) : y[k] = y_pred[k]}),
                      tt + Len(y_pred))

\* return crr / ttl: float division by 0. raises ZeroDivisionError
Evaluate(samples, preds) ==
    LET r == EvalLoop(samples, preds, 0, 0)
    IN  IF r.ttl = 0
        THEN [raised |-> TRUE, acc |-> Unbound]
        ELSE [raised |-> FALSE, acc |-> <<r.crr, r.ttl>>]

(***************************************************************************)
(* train(): one action per step of the loop.                               *)
(***************************************************************************)
(* np.random.shuffle draws an order the loop never looks at except one entry *)
(* per iteration, so the order is drawn as it is consumed: each iteration  *)
(* takes any entry of batch_indices not yet visited in this epoch.         *)
\* a plausible slip: the patience test is off by one
StagnationExceeded_OffByOne(u) == u >= StagnationLimit

\* if unchanged > 15: break
StagnationExceeded(u) == u > StagnationLimit

\* a plausible slip: the range is inclusive, one epoch too many
EpochsLeft_Inclusive(e, m) == e <= m

\* for epoch in xrange(max_epoch): is there another epoch
EpochsLeft(e, m) == e < m

\* a plausible slip: the guard is missing
IsNan_Never(cur_loss) == FALSE

\* math.isnan(cur_loss)
IsNan(cur_loss) == cur_loss = "nan"

\* a plausible slip: >= instead of >
Improves_OrEqual(acc, best) == AccGt(acc, best) \/ AccEq(acc, best)

\* if dev_acc > best_acc
Improves(acc, best) == AccGt(acc, best)

\* a plausible slip: dropout is left at its evaluation value
TrainDropout_NotRestored(a) == 0

\* dropout_p = np.float32(args.dropout).astype(theano.config.floatX)
TrainDropout(a) == a.dropout

Raise(name) ==
    /\ pc' = "raised"
    /\ outcome' = name

\* the first statements of train(), before the loop
TrainBegin ==
    /\ pc = "compiled"
    /\ unchanged' = 0
    /\ best_acc' = MinusOne
    /\ batch_indices' = [k \in 1..Len(train_samples) |-> k - 1]
    /\ epoch' = 0
    /\ pc' = "for"
    /\ UNCHANGED <<outcome, modelVars, fileVars, dataVars, dev_acc, i, pos, ttl, visited,
                   obsVars>>

\* the head of the epoch loop, up to the start of the inner loop
ForEpoch ==
    /\ pc = "for"
    /\ IF ~EpochsLeft(epoch, args.max_epoch)
       THEN /\ pc' = "returned"
            /\ outcome' = "max_epoch"
            /\ UNCHANGED <<unchanged, pos, ttl, visited>>
       ELSE /\ unchanged' = unchanged + 1
            /\ IF StagnationExceeded(unchanged')
               THEN /\ pc' = "returned"
                    /\ outcome' = "early_stop"
                    /\ UNCHANGED <<pos, ttl, visited>>
               ELSE /\ visited' = {}              \* np.random.shuffle(batch_indices)
                    /\ ttl' = 0
                    /\ pos' = 0
                    /\ pc' = "train"
                    /\ UNCHANGED outcome
    /\ UNCHANGED <<modelVars, fileVars, dataVars, epoch, best_acc, dev_acc, batch_indices, i,
                   obsVars>>

\* one iteration of the inner loop: the train step and the NaN guard
\* (crr, train_loss and train_cost only feed the log line and are left out)
TrainStep ==
    /\ pc = "train"
    /\ pos < Len(batch_indices)
    /\ \E k \in (1..Len(batch_indices)) \ visited, cur_loss \in {"finite", "nan"} :
          LET index  == batch_indices[k]
              sample == train_samples[index + 1]
          IN
          /\ i' = pos
          /\ visited' = visited \cup {k}
          /\ lastCall' = [fn |-> "train_func", dropout |-> dropout]
          /\ trainEpochs' = trainEpochs \cup {epoch}
          /\ nanSeen' = (nanSeen \/ cur_loss = "nan")
          /\ IF IsNan(cur_loss)
             THEN /\ pc' = "exited"                 \* exit()
                  /\ outcome' = "nan_exit"
                  /\ UNCHANGED <<pos, ttl>>
             ELSE /\ ttl' = ttl + Len(sample.y)     \* len(y_pred)
                  /\ pos' = pos + 1
                  /\ UNCHANGED <<pc, outcome>>
    /\ UNCHANGED <<modelVars, fileVars, dataVars, epoch, unchanged, best_acc, dev_acc,
                   batch_indices, maxSeen, lastImproved, lastSave>>

\* self.dropout.set_value(0.0), once the inner loop is exhausted
SetDropoutEval ==
    /\ pc = "train"
    /\ pos = Len(batch_indices)
    /\ dropout' = 0
    /\ pc' = "eval_dev"
    /\ UNCHANGED <<outcome, variant, args, emb_layers, layers, params, pooling,
                   fileVars, dataVars, loopVars, obsVars>>

\* if dev_samples is not None: dev_acc = self.evaluate(dev_samples, eval_func)
EvalDev ==
    /\ pc = "eval_dev"
    /\ IF dev_samples.given
       THEN /\ lastCall' = [fn |-> "evaluate_dev", dropout |-> dropout]
            /\ \E preds \in Predictions(dev_samples.samples) :
                 LET r == Evaluate(dev_samples.samples, preds) IN
                 IF r.raised
                 THEN Raise("ZeroDivisionError") /\ UNCHANGED dev_acc
                 ELSE dev_acc' = r.acc /\ pc' = "eval_test" /\ UNCHANGED outcome
       ELSE /\ pc' = "eval_test"
            /\ UNCHANGED <<outcome, dev_acc, lastCall>>
    /\ UNCHANGED <<modelVars, fileVars, dataVars, epoch, unchanged, best_acc,
                   batch_indices, i, pos, ttl, visited,
                   nanSeen, maxSeen, lastImproved, lastSave, trainEpochs>>

\* if test_samples is not None: test_acc = self.evaluate(test_samples, eval_func)
EvalTest ==
    /\ pc = "eval_test"
    /\ IF test_samples.given
       THEN /\ lastCall' = [fn |-> "evaluate_test", dropout |-> dropout]
            /\ \E preds \in Predictions(test_samples.samples) :
                 LET r == Evaluate(test_samples.samples, preds) IN
                 IF r.raised
                 THEN Raise("ZeroDivisionError")
                 ELSE pc' = "update" /\ UNCHANGED outcome
       ELSE /\ pc' = "update"
            /\ UNCHANGED <<outcome, lastCall>>
    /\ UNCHANGED <<modelVars, fileVars, dataVars, loopVars,
                   nanSeen, maxSeen, lastImproved, lastSave, trainEpochs>>

\* if dev_acc > best_acc: ... (reading the unbound dev_acc raises)
UpdateBest ==
    /\ pc = "update"
    /\ IF dev_acc = Unbound
       THEN /\ Raise("UnboundLocalError")
            /\ UNCHANGED <<unchanged, best_acc, ckpt_file, maxSeen, lastImproved, lastSave>>
       ELSE /\ IF Improves(dev_acc, best_acc)
               THEN /\ unchanged' = 0
                    /\ best_acc' = dev_acc
                    /\ IF args.save_model # <<>>
                       THEN /\ ckpt_file' = <<Checkpoint(args.save_model, args, layers)>>
                            /\ lastSave' = epoch
                       ELSE UNCHANGED <<ckpt_file, lastSave>>
               ELSE UNCHANGED <<unchanged, best_acc, ckpt_file, lastSave>>
            /\ maxSeen' = IF maxSeen = Unbound \/ AccGt(dev_acc, maxSeen)
                          THEN dev_acc ELSE maxSeen
            /\ lastImproved' = IF maxSeen = Unbound \/ AccGt(dev_acc, maxSeen)
                               THEN epoch ELSE lastImproved
            /\ pc' = "restore"
            /\ UNCHANGED outcome
    /\ UNCHANGED <<modelVars, path, call_args, dataVars, epoch, dev_acc, batch_indices, i, pos, ttl,
                   visited, lastCall, nanSeen, trainEpochs>>

\* the rest of the epoch body: dropout is restored, then the log lines are formatted
\* (train_cost / (i + 1) reads i; crr / ttl divides by ttl)
EpochEnd ==
    /\ pc = "restore"
    /\ dropout' = TrainDropout(args)
    /\ IF i = -1
       THEN Raise("UnboundLocalError") /\ UNCHANGED epoch
       ELSE IF ttl = 0
       THEN Raise("ZeroDivisionError") /\ UNCHANGED epoch
       ELSE /\ epoch' = epoch + 1
            /\ pc' = "for"
            /\ UNCHANGED outcome
    /\ UNCHANGED <<variant, args, emb_layers, layers, params, pooling, fileVars, dataVars,
                   unchanged, best_acc, dev_acc, batch_indices, i, pos, ttl, visited,
                   obsVars>>

(***************************************************************************)
(* Initial states and specifications.                                      *)
(***************************************************************************)
DropoutValues == {2}
Widths == {2, 3}

ObsInit ==
    /\ lastCall = [fn |-> "none", dropout |-> -1]
    /\ nanSeen = FALSE
    /\ maxSeen = Unbound
    /\ lastImproved = -1
    /\ lastSave = -1
    /\ trainEpochs = {}

LoopInit ==
    /\ epoch = 0
    /\ unchanged = 0
    /\ best_acc = MinusOne
    /\ dev_acc = Unbound
    /\ batch_indices = <<>>
    /\ i = -1
    /\ pos = 0
    /\ ttl = 0
    /\ visited = {}

\* Model.__init__
Constructed ==
    /\ pc = "constructed"
    /\ outcome = "running"
    /\ layers = <<>>
    /\ params = <<>>
    /\ pooling = "unset"
    /\ dropout = -1

NoData ==
    /\ train_samples = <<>>
    /\ dev_samples = NotGiven
    /\ test_samples = NotGiven

Embeddings(v, w) == IF v = "BaseModel" THEN <<EmbLayer(w)>> ELSE <<EmbLayer(w), EmbLayer(w)>>

\* a model is constructed, compiled and trained
Init ==
    /\ Constructed
    /\ variant = "BaseModel"
    /\ emb_layers = Embeddings(variant, 3)
    /\ args \in [layer : {"lstm"}, depth : {1}, hidden_dim : {2}, average : {FALSE},
                 dropout : DropoutValues,
                 max_epoch : {e \in 0..MaxEpoch : e <= 1 \/ e > StagnationLimit},
                 save_model : {<<>>, <<"m">>}]
    /\ path = <<>>
    /\ ckpt_file = <<>>
    /\ call_args = args
    /\ train_samples \in {MkSamples(n) : n \in 0..MaxTrain} \cup {<<EmptyBatch>>}
    /\ dev_samples \in {NotGiven} \cup {Given(MkSamples(n)) : n \in 0..MaxDev}
    /\ test_samples \in {NotGiven} \cup {Given(MkSamples(n)) : n \in 0..1}
    /\ LoopInit
    /\ ObsInit

Next ==
    \/ Compile
    \/ TrainBegin
    \/ ForEpoch
    \/ TrainStep
    \/ SetDropoutEval
    \/ EvalDev
    \/ EvalTest
    \/ UpdateBest
    \/ EpochEnd

Spec == Init /\ [][Next]_vars

\* train() is sequential code: a step that can run does run
FairSpec == Spec /\ WF_vars(Next)

\* a model of any configuration is constructed and compiled
InitCompile ==
    /\ Constructed
    /\ variant \in {"BaseModel", "SemModel"}
    /\ \E w \in Widths : emb_layers = Embeddings(variant, w)
    /\ args \in [layer : LayerNames, depth : 1..MaxDepth, hidden_dim : Widths,
                 average : BOOLEAN, dropout : {2}, max_epoch : {0}, save_model : {<<>>}]
    /\ path = <<>>
    /\ ckpt_file = <<>>
    /\ call_args = args
    /\ NoData
    /\ LoopInit
    /\ ObsInit

NextCompile == Compile

SpecCompile == InitCompile /\ [][NextCompile]_vars

\* a compiled model
Compiled ==
    /\ pc = "compiled"
    /\ outcome = "running"
    /\ variant \in {"BaseModel", "SemModel"}
    /\ emb_layers = Embeddings(variant, 3)
    /\ args \in [layer : {"lstm"}, depth : 1..MaxDepth, hidden_dim : Widths,
                 average : {FALSE}, dropout : {2}, max_epoch : {0}, save_model : {<<>>}]
    /\ layers = CompiledLayers(variant, args, emb_layers)
    /\ params = SetParams(<<>>, layers)
    /\ pooling = MidLayerPooling(args)
    /\ dropout = args.dropout
    /\ NoData
    /\ LoopInit
    /\ ObsInit

PathParts == {<<"m">>, PKL, GZ, <<"g", "z">>}

RECURSIVE PathsOf(_)
PathsOf(n) ==
    IF n = 0 THEN {<<>>}
    ELSE LET shorter == PathsOf(n - 1)
         IN  shorter \cup {p \o t : p \in shorter, t \in PathParts}

\* save_model(path) is called on a compiled model
InitSave ==
    /\ Compiled
    /\ args.depth = 1 /\ args.hidden_dim = 2 /\ variant = "BaseModel"
    /\ path \in PathsOf(MaxParts)
    /\ ckpt_file = <<>>
    /\ call_args = args

NextSave == SaveModel

SpecSave == InitSave /\ [][NextSave]_vars

RECURSIVE SeqsUpTo(_, _)
SeqsUpTo(S, n) ==
    IF n = 0 THEN {<<>>}
    ELSE LET shorter == SeqsUpTo(S, n - 1)
         IN  shorter \cup {Append(q, x) : q \in shorter, x \in S}

\* load_pretrained_parameters is called on a compiled model, with some checkpoint file
InitLoad ==
    /\ Compiled
    /\ path = <<>>
    /\ \E h \in Widths : call_args = [args EXCEPT !.hidden_dim = h]
    /\ \E d \in Widths, ps \in SeqsUpTo({<<1>>, <<2>>}, MaxCkpt) :
          ckpt_file = <<[path |-> <<"m">> \o PKLGZ, args |-> [args EXCEPT !.hidden_dim = d],
                         d |-> d, params |-> ps]>>

NextLoad == LoadPretrainedParameters

SpecLoad == InitLoad /\ [][NextLoad]_vars

(***************************************************************************)
(* Properties of train().                                                  *)
(***************************************************************************)
RECURSIVE TotalLabels(_)
TotalLabels(samples) ==
    IF samples = <<>> THEN 0 ELSE Len(Head(samples).y) + TotalLabels(Tail(samples))

Halted == pc \in {"returned", "exited", "raised"}

\* C1: when max_epoch > 16 and epoch 0 is the only epoch whose dev accuracy exceeds
\* the best seen so far, no train step runs in epoch 16 or later, and train returns
\* by the early stop at epoch 16 after running train steps in epochs 0..15.
C1_EarlyStopAtEpoch16 ==
    (args.max_epoch > 16 /\ lastImproved <= 0) =>
        /\ \A e \in trainEpochs : e <= 15
        /\ (pc = "returned" =>
               /\ outcome = "early_stop"
               /\ epoch = 16
               /\ trainEpochs = 0..15)

C1_Witness ==
    /\ pc = "returned"
    /\ args.max_epoch > 16
    /\ lastImproved = 0
    /\ trainEpochs = 0..15

\* C2: once a train step has returned a NaN loss the run has halted: the step that
\* saw it is the last step, so no later train step, evaluation, best-accuracy
\* update or checkpoint save happens.
C2_NanHaltsRun ==
    [][nanSeen =>
          /\ pc = "exited"
          /\ UNCHANGED <<lastCall, trainEpochs, i, pos, visited, epoch, dev_acc, best_acc,
                         unchanged, ckpt_file, lastSave, dropout, pc>>]_vars

C2_Witness ==
    /\ nanSeen
    /\ pc = "exited"
    /\ i + 1 < Len(batch_indices)
    /\ epoch >= 1
    /\ epoch + 1 < args.max_epoch

\* the dev accuracy of the epoch being closed exceeds that of every earlier epoch
ExceedsEarlier == maxSeen = Unbound \/ AccGt(dev_acc, maxSeen)

ClosesEpoch == pc = "update" /\ pc' = "restore"

\* C3: best_acc is the maximum dev accuracy of the completed epochs; an epoch writes
\* a checkpoint iff its dev accuracy strictly exceeds that of all earlier epochs and
\* a save path is configured; an epoch whose dev accuracy equals the previous best
\* neither writes a checkpoint nor resets the stagnation counter.
C3_BestAccAndCheckpoint ==
    /\ [](pc \notin {"constructed", "compiled"} =>
            IF maxSeen = Unbound THEN best_acc = MinusOne ELSE AccEq(best_acc, maxSeen))
    /\ [][ClosesEpoch =>
            /\ (lastSave' = epoch) <=> (ExceedsEarlier /\ args.save_model # <<>>)
            /\ (lastSave' = epoch) <=> (ckpt_file' # ckpt_file \/ lastSave' # lastSave)
            /\ (lastSave' = epoch) => ckpt_file' = <<Checkpoint(args.save_model, args, layers)>>
            /\ (maxSeen # Unbound /\ AccEq(dev_acc, maxSeen)) =>
                   /\ ckpt_file' = ckpt_file
                   /\ lastSave' = lastSave
                   /\ unchanged' = unchanged]_vars

C3_Witness ==
    /\ pc = "restore"
    /\ epoch = 2
    /\ AccEq(dev_acc, best_acc)
    /\ lastImproved = 1
    /\ lastSave = 1
    /\ unchanged = 1
    /\ ckpt_file # <<>>

\* C4: every train step sees dropout = args.dropout, every evaluate() call made by
\* train sees dropout = 0, and dropout = args.dropout when train returns normally.
C4_DropoutPhases ==
    /\ lastCall.fn = "train_func" => lastCall.dropout = args.dropout
    /\ lastCall.fn \in {"evaluate_dev", "evaluate_test"} => lastCall.dropout = 0
    /\ pc = "returned" => dropout = args.dropout

C4_Witness ==
    /\ pc = "returned"
    /\ outcome = "max_epoch"
    /\ args.dropout # 0
    /\ epoch >= 2
    /\ lastCall.fn = "evaluate_test"

ThreeWays == outcome \in {"running", "max_epoch", "early_stop", "nan_exit"}

\* C5 as stated: for every finite train and dev sample set train() stops in one of
\* three ways (max_epoch reached, early stop, NaN abort).
C5_StopsInThreeWays_AnySets ==
    dev_samples.given => ThreeWays

\* train, dev and (if supplied) test samples are supplied, non-empty and predict something
NonEmptyData ==
    /\ TotalLabels(train_samples) > 0
    /\ dev_samples.given /\ TotalLabels(dev_samples.samples) > 0
    /\ test_samples.given => TotalLabels(test_samples.samples) > 0

\* C5 amended: with non-empty train and dev sets (and test set, if supplied), train()
\* eventually stops, in one of the three ways, and never runs train steps in more
\* than max_epoch epochs.
C5_Terminates ==
    /\ <>(NonEmptyData => pc \in {"returned", "exited"})
    /\ [](NonEmptyData =>
            /\ ThreeWays
            /\ Cardinality(trainEpochs) <= args.max_epoch
            /\ outcome = "max_epoch" => pc = "returned" /\ epoch = args.max_epoch
            /\ outcome = "early_stop" =>
                  pc = "returned" /\ epoch < args.max_epoch /\ unchanged > 15
            /\ outcome = "nan_exit" => pc = "exited" /\ nanSeen)

C5_Witness ==
    /\ NonEmptyData
    /\ outcome = "max_epoch"
    /\ args.max_epoch = 16
    /\ unchanged = 15

\* C6: without dev samples, with non-empty train samples (and test samples that
\* are absent or non-empty) and no NaN loss, train() reaches no error state.
C6_DevSamplesOptional ==
    (/\ ~dev_samples.given
     /\ TotalLabels(train_samples) > 0
     /\ test_samples.given => TotalLabels(test_samples.samples) > 0
     /\ ~nanSeen) => pc # "raised"

(***************************************************************************)
(* Properties of load_pretrained_parameters and save_model.                *)
(***************************************************************************)
\* C7: on a mismatch between the checkpoint's d and the hidden_dim of the args
\* passed to the load, the load fails with an assertion error and every layer's
\* params are unchanged (the embedding layers' too); otherwise layer k receives the
\* k-th snapshot of the checkpoint, for every k up to the shorter of the two lengths.
C7_LoadPositional ==
    pc # "compiled" =>
        LET data == ckpt_file[1]
            before == CompiledLayers(variant, args, Embeddings(variant, 3))
        IN  IF call_args.hidden_dim # data.d
            THEN /\ pc = "raised"
                 /\ outcome = "AssertionError"
                 /\ layers = before
                 /\ emb_layers = Embeddings(variant, 3)
            ELSE /\ pc = "loaded"
                 /\ Len(layers) = Len(before)
                 /\ \A k \in 1..Len(layers) :
                       layers[k].params =
                           IF k <= Len(data.params) THEN data.params[k] ELSE before[k].params

C7_Witness ==
    /\ pc = "raised"
    /\ call_args.hidden_dim # ckpt_file[1].d
    /\ call_args.hidden_dim # args.hidden_dim
    /\ Len(ckpt_file[1].params) >= 2
    /\ Len(layers) >= 2

Written == ckpt_file[1].path

\* C8 as stated: the written path ends in ".pkl.gz", a path that has it is kept, and
\* a path with only one half of it gets the missing half ("m.gz" -> "m.pkl.gz").
C8_MissingHalfAdded ==
    pc = "saved" =>
        /\ EndsWith(Written, PKLGZ)
        /\ EndsWith(path, PKLGZ) => Written = path
        /\ (EndsWith(path, PKL) /\ ~EndsWith(path, PKLGZ)) => Written = path \o GZ
        /\ (EndsWith(path, GZ) /\ ~EndsWith(path, PKLGZ)) =>
               Written = SubSeq(path, 1, Len(path) - Len(GZ)) \o PKLGZ

\* C8 amended: the written path ends in ".pkl.gz" and starts with the given path; it
\* is the given path iff that ends in ".pkl.gz"; ".gz" alone is added iff the path
\* ends in ".pkl"; every other path, one ending in ".gz" included, gets ".pkl.gz".
C8_SuffixAppended ==
    pc = "saved" =>
        LET added == Len(Written) - Len(path) IN
        /\ EndsWith(Written, PKLGZ)
        /\ added >= 0
        /\ SubSeq(Written, 1, Len(path)) = path
        /\ added = 0 <=> EndsWith(path, PKLGZ)
        /\ added = Len(GZ) <=> EndsWith(path, PKL)
        /\ added \in {0, Len(GZ), Len(PKLGZ)}

C8_Witness ==
    /\ pc = "saved"
    /\ path = <<"m">> \o GZ
    /\ Written = <<"m">> \o GZ \o PKLGZ

(***************************************************************************)
(* Properties of compile().                                                *)
(***************************************************************************)
Encoders == {"LSTM", "GRU", "GRNN", "CNN", "StrCNN", "RCNN"}

\* the first depth entries of self.layers are encoders of the widths of the spec
EncoderStack ==
    /\ Len(layers) >= args.depth
    /\ \A k \in 1..args.depth :
          /\ layers[k].cls \in Encoders
          /\ layers[k].n_in = (IF k = 1 THEN emb_layers[1].n_out ELSE args.hidden_dim)
          /\ layers[k].n_out = args.hidden_dim

\* C9 as stated: for both variants self.layers holds exactly depth entries, all
\* encoders, the first of input width n_e and the others of input width hidden_dim.
C9_ExactlyDepthEncoders ==
    pc = "compiled" =>
        /\ Len(layers) = args.depth
        /\ EncoderStack

\* C9 amended: the first depth entries are such encoders; a BaseModel holds nothing
\* else, a SemModel holds one more entry, its last embedding layer.
C9_EncodersThenEmbedding ==
    pc = "compiled" =>
        /\ EncoderStack
        /\ variant = "BaseModel" => Len(layers) = args.depth
        /\ variant = "SemModel" =>
              /\ Len(layers) = args.depth + 1
              /\ layers[args.depth + 1] = emb_layers[Len(emb_layers)]

C9_Witness ==
    /\ pc = "compiled"
    /\ variant = "SemModel"
    /\ args.depth = 2
    /\ emb_layers[1].n_out # args.hidden_dim
    /\ Len(layers) = 3
    /\ layers[3].cls = "EmbeddingLayer"

\* C10: the mid layer pools by the padding-aware mean iff average is set or the
\* encoder class chosen by _set_layers is CNN or StrCNN.
C10_PoolingMatchesEncoder ==
    pc = "compiled" =>
        (pooling = "average_without_padding"
            <=> (args.average \/ layers[1].cls \in {"CNN", "StrCNN"}))

====
